---- MODULE Spec2Model ----
(***************************************************************************)
(* Model of kubernetes-resource-units (src/index.ts): parsing a resource   *)
(* string, scaling it to a base value, comparing, scaling back and adding. *)
(*                                                                         *)
(* The program computes with two JavaScript numeric types.  Both are       *)
(* modelled by value:                                                      *)
(*   - a bigint is a natural number of any size (the program never builds  *)
(*     a negative one: the grammar has no sign);                           *)
(*   - a number is an IEEE-754 double: a dyadic rational m / 2^k whose     *)
(*     significand fits 53 bits.  Every floating operation computes the    *)
(*     exact rational result and rounds it to the nearest double, ties to  *)
(*     even, as the hardware does.                                         *)
(* TLC's integers are 32 bits wide, so naturals are kept as sequences of   *)
(* decimal limbs (little-endian, base 10^4).                               *)
(***************************************************************************)
EXTENDS Integers, Sequences, FiniteSets, TLC

(***************************************************************************)
(* Natural numbers of any size: <<>> is 0, <<5678, 1234>> is 12345678.     *)
(* The most significant limb is never 0.                                   *)
(***************************************************************************)
BASE == 10000

Zero == <<>>
One == <<1>>

Limb(a, i) == IF i <= Len(a) THEN a[i] ELSE 0

Max(S) == CHOOSE x \in S : \A y \in S : y <= x

\* TLC passes arguments unevaluated and computes one where it is first read,
\* on top of whatever is being computed there.  Done(v) is TRUE once v is
\* computed: an operator that tests it first keeps the pending work of its
\* arguments from piling up on the stack.
Done(v) == v = v

\* a without its leading zero limbs
BigNorm(a) ==
    CASE Done(a) ->
    LET nz == {i \in 1..Len(a) : a[i] # 0}
    IN  IF nz = {} THEN <<>> ELSE SubSeq(a, 1, Max(nz))

\* a natural below 2^31 as limbs
RECURSIVE BigOf(_)
BigOf(n) == IF n = 0 THEN <<>> ELSE <<n % BASE>> \o BigOf(n \div BASE)

\* -1, 0 or 1 as a < b, a = b, a > b: the highest limb that differs decides
BigCmp(a, b) ==
    CASE Done(a) /\ Done(b) ->
    IF Len(a) > Len(b) THEN 1
    ELSE IF Len(a) < Len(b) THEN -1
    ELSE LET D == {i \in 1..Len(a) : a[i] # b[i]}
         IN  IF D = {} THEN 0 ELSE IF a[Max(D)] > b[Max(D)] THEN 1 ELSE -1

BigLt(a, b) == BigCmp(a, b) < 0
BigLe(a, b) == BigCmp(a, b) <= 0

\* a + b.  The carry into limb i comes from the highest limb below it whose
\* sum is not BASE - 1 (a sum of BASE - 1 passes the carry on).
BigAdd(a, b) ==
    CASE Done(a) /\ Done(b) ->
    LET n == IF Len(a) > Len(b) THEN Len(a) ELSE Len(b)
        sum(i) == Limb(a, i) + Limb(b, i)
        carry(i) ==
            LET J == {j \in 1..(i - 1) : sum(j) # BASE - 1}
            IN  IF J = {} THEN 0 ELSE IF sum(Max(J)) >= BASE THEN 1 ELSE 0
    IN  BigNorm([i \in 1..(n + 1) |-> (sum(i) + carry(i)) % BASE])

\* a - b for a >= b.  The borrow from limb i is decided by the highest limb
\* below it where a and b differ.
BigSub(a, b) ==
    CASE Done(a) /\ Done(b) ->
    LET borrow(i) ==
            LET J == {j \in 1..(i - 1) : a[j] # Limb(b, j)}
            IN  IF J = {} THEN 0 ELSE IF a[Max(J)] < Limb(b, Max(J)) THEN 1 ELSE 0
    IN  BigNorm([i \in 1..Len(a) |-> (a[i] - Limb(b, i) - borrow(i) + BASE) % BASE])

\* a * BASE^n
BigShift(a, n) ==
    IF Len(a) = 0 THEN a ELSE [i \in 1..n |-> 0] \o a

\* a * m for a limb-sized m (0 <= m < BASE): every limb product splits into
\* a low and a high limb, and the two rows are added
BigMulSmall(a, m) ==
    CASE Done(a) ->
    IF m = 0 \/ Len(a) = 0 THEN <<>>
    ELSE BigAdd(BigNorm([i \in 1..Len(a) |-> (a[i] * m) % BASE]),
                BigShift(BigNorm([i \in 1..Len(a) |-> (a[i] * m) \div BASE]), 1))

\* a times the limbs lo..hi of b, halving the range
RECURSIVE BigMulRange(_, _, _, _)
BigMulRange(a, b, lo, hi) ==
    IF lo = hi THEN BigMulSmall(a, b[lo])
    ELSE BigAdd(BigMulRange(a, b, lo, (lo + hi) \div 2),
                BigShift(BigMulRange(a, b, (lo + hi) \div 2 + 1, hi),
                         (lo + hi) \div 2 + 1 - lo))

BigMul(a, b) ==
    CASE Done(a) /\ Done(b) ->
    IF Len(a) = 0 \/ Len(b) = 0 THEN <<>> ELSE BigMulRange(a, b, 1, Len(b))

\* One limb of a quotient, for cur < b * BASE and a divisor b whose top limb
\* is at least BASE / 2: the two top limbs of cur over the top limb of b
\* overestimate the limb by at most 2 (Knuth, TAOCP 4.3.1, theorem B), and
\* QuotFix steps the estimate est, with p = b * est, down to the limb.  The
\* result is the limb q and the remainder r = cur - b * q.
QuotEst(cur, b) ==
    LET top == Limb(cur, Len(b) + 1) * BASE + Limb(cur, Len(b))
    IN  IF top \div b[Len(b)] > BASE - 1 THEN BASE - 1 ELSE top \div b[Len(b)]

RECURSIVE QuotFix(_, _, _, _)
QuotFix(cur, b, est, p) ==
    IF BigLe(p, cur) THEN [q |-> est, r |-> BigSub(cur, p)]
    ELSE QuotFix(cur, b, est - 1, BigSub(p, b))

QuotTry(cur, b, est) == QuotFix(cur, b, est, BigMulSmall(b, est))

QuotLimb(cur, b) == QuotTry(cur, b, QuotEst(cur, b))

\* long division, most significant limb first: r is the running remainder
\* and q collects the quotient limbs
RECURSIVE BigDivFrom(_, _, _, _, _)
BigDivPut(a, b, i, d, q) ==
    CASE Done(d.r) /\ Done(q) -> BigDivFrom(a, b, i, d.r, <<d.q>> \o q)

BigDivFrom(a, b, i, r, q) ==
    IF i = 0 THEN [q |-> q, r |-> r]
    ELSE BigDivPut(a, b, i - 1, QuotLimb(BigNorm(<<a[i]>> \o r), b), q)

\* floor(a / b) and a mod b, for b > 0: an and bn are a and b scaled so that
\* the divisor's top limb is at least BASE / 2, which leaves the quotient
BigDivRem(a, b, q) == CASE Done(q) -> [q |-> q, r |-> BigSub(a, BigMul(q, b))]

BigDivScaled(a, b, an, bn) ==
    CASE Done(an) /\ Done(bn) ->
    BigDivRem(a, b, BigNorm(BigDivFrom(an, bn, Len(an) - Len(bn) + 1,
                                       SubSeq(an, Len(an) - Len(bn) + 2, Len(an)),
                                       <<>>).q))

BigDivMod(a, b) ==
    CASE Done(a) /\ Done(b) ->
    IF BigLt(a, b) THEN [q |-> <<>>, r |-> a]
    ELSE BigDivScaled(a, b, BigMulSmall(a, BASE \div (b[Len(b)] + 1)),
                            BigMulSmall(b, BASE \div (b[Len(b)] + 1)))

BigDiv(a, b) == BigDivMod(a, b).q

\* 10^n: a limb holds four decimal digits
Pow10(n) == BigShift(<<10 ^ (n % 4)>>, n \div 4)

\* 2^n by squaring: h is 2^(n \div 2)
RECURSIVE Pow2(_)
Pow2Square(h, n) == CASE Done(h) -> BigMulSmall(BigMul(h, h), IF n % 2 = 0 THEN 1 ELSE 2)

Pow2(n) == IF n < 31 THEN BigOf(2 ^ n) ELSE Pow2Square(Pow2(n \div 2), n)

BigIsOdd(a) == Len(a) > 0 /\ a[1] % 2 = 1

\* number of decimal digits of a (0 for 0)
RECURSIVE SmallDigits(_)
SmallDigits(n) == IF n = 0 THEN 0 ELSE 1 + SmallDigits(n \div 10)

DecLen(a) == IF Len(a) = 0 THEN 0 ELSE 4 * (Len(a) - 1) + SmallDigits(a[Len(a)])

\* number of bits of a > 0: the least n with a < 2^n.  a >= 10^(d-1) for its
\* d decimal digits, and 10^(d-1) >= 2^floor(3.3219 (d-1)), so the search
\* starts there and ends within five steps.
RECURSIVE BitLenFrom(_, _, _)
BitLenFrom(a, n, p) == IF BigLt(a, p) THEN n ELSE BitLenFrom(a, n + 1, BigAdd(p, p))

BitLenStart(a) == ((DecLen(a) - 1) * 33219) \div 10000

BitLen(a) == BitLenFrom(a, BitLenStart(a), Pow2(BitLenStart(a)))

(***************************************************************************)
(* JavaScript values.  A number is m / 2^k in lowest terms (k = 0, or m    *)
(* odd), so two numbers are equal exactly when their records are; a bigint *)
(* is its natural m.  The numbers Infinity and NaN and a thrown RangeError  *)
(* are values of their own.  No number is negative: the parser reads no    *)
(* sign, and no operation of the library subtracts.                        *)
(***************************************************************************)
Num(m, k) == [t |-> "number", m |-> m, k |-> k]
BigI(m) == [t |-> "bigint", m |-> m, k |-> 0]
RangeError == [t |-> "RangeError", m |-> <<>>, k |-> 0]
Infinity == [t |-> "Infinity", m |-> <<>>, k |-> 0]
NaN == [t |-> "NaN", m |-> <<>>, k |-> 0]

\* typeof x === "number", Number.isFinite(x), Number.isNaN(x)
IsNumber(x) == x.t \in {"number", "Infinity", "NaN"}
IsFinite(x) == x.t = "number"
IsNaN(x) == x.t = "NaN"
IsBigInt(x) == x.t = "bigint"
IsThrown(x) == x.t = "RangeError"

\* the number 0, and Number(x) === 0 for a number or a bigint x
IsZeroNumber(x) == IsFinite(x) /\ Len(x.m) = 0
IsZeroValue(x) == (IsFinite(x) \/ IsBigInt(x)) /\ Len(x.m) = 0

\* The doubles end below 2^1024 (a number that rounds to 2^1024 or more is
\* Infinity; the largest is below 1.8 * 10^308) and are the multiples of
\* 2^-1074 (below 2^-1022 a significand has less than 53 bits).
MaxDecExp == 309
MaxBinExp == 1024
MinBinExp == 1074

\* a double from 2^1024 on, which has 309 digits, is Infinity
Finite(v) ==
    CASE Done(v) ->
    IF /\ IsFinite(v) /\ v.k = 0 /\ DecLen(v.m) >= MaxDecExp
       /\ BitLen(v.m) > MaxBinExp
    THEN Infinity
    ELSE v

\* m / 2^k brought to lowest terms: x loses its common factor 2^j when it has
\* one, for j = 32, 16, 8, 4, 2, 1 (a significand has less than 64 bits)
DyadicCut(x, j, d) == CASE Done(d) -> IF Len(d.r) = 0 THEN Num(d.q, x.k - j) ELSE x

DyadicTry(x, j) == IF x.k < j THEN x ELSE DyadicCut(x, j, BigDivMod(x.m, Pow2(j)))

RECURSIVE DyadicStrip(_, _)
DyadicStrip(x, j) ==
    IF j = 0 \/ x.k = 0 THEN x ELSE DyadicStrip(DyadicTry(x, j), j \div 2)

Dyadic(m, k) ==
    IF Len(m) = 0 THEN Num(Zero, 0)
    ELSE IF k <= 0 THEN Num(BigMul(m, Pow2(-k)), 0)
    ELSE DyadicStrip(Num(m, k), 32)

\* The double nearest to num / den (den > 0), ties to even.  The fraction is
\* scaled to top / bot = (num / den) * 2^s with s chosen so that the integer
\* part of top / bot has exactly 53 bits, and at most MinBinExp, which leaves
\* less bits to a subnormal and none to a number that underflows to 0; the
\* remainder of that division decides the rounding, and a result of 2^1024
\* or more is Infinity.
ScaleUp(a, e) == IF e > 0 THEN BigMul(a, Pow2(e)) ELSE a

\* d is the quotient and remainder of top / bot: round up when the remainder
\* is above half of bot, or is half of bot and the quotient is odd
RoundQuot(d, bot, s) ==
    CASE Done(d) ->
    Finite(Dyadic(IF BigCmp(BigAdd(d.r, d.r), bot) + (IF BigIsOdd(d.q) THEN 1 ELSE 0) > 0
                  THEN BigAdd(d.q, One) ELSE d.q,
                  s))

RoundFrac(top, bot, s) == RoundQuot(BigDivMod(top, bot), bot, s)

\* s0 leaves 53 or 54 bits: fits tells that top / bot is below 2^53
RoundPick(top, bot, s0, fits) ==
    CASE Done(fits) ->
    RoundFrac(top, IF fits THEN bot ELSE BigAdd(bot, bot), IF fits THEN s0 ELSE s0 - 1)

RoundFit(top, bot, s0) ==
    CASE Done(top) /\ Done(bot) ->
    RoundPick(top, bot, s0, BigLt(top, BigMul(bot, Pow2(53))))

RoundAt(num, den, s0) ==
    CASE Done(s0) ->
    RoundFit(ScaleUp(num, s0), ScaleUp(den, -s0), s0)

\* below the normal range the quotient is taken at 2^-1074, where it has
\* less than 53 bits
SubnormalShift(s0) == IF s0 > MinBinExp THEN MinBinExp ELSE s0

RoundToDouble(num, den) ==
    CASE Done(num) /\ Done(den) ->
    IF Len(num) = 0 THEN Num(Zero, 0)
    ELSE RoundAt(num, den, SubnormalShift(53 - (BitLen(num) - BitLen(den))))

\* x * y, x / y and x + y on numbers: Infinity * 0, Infinity / Infinity and
\* 0 / 0 are NaN, x / 0 is Infinity for the other x > 0, and NaN spreads
NumMul(x, y) ==
    CASE Done(x) /\ Done(y) ->
    IF IsNaN(x) \/ IsNaN(y) THEN NaN
    ELSE IF x = Infinity \/ y = Infinity
    THEN (IF IsZeroNumber(x) \/ IsZeroNumber(y) THEN NaN ELSE Infinity)
    ELSE RoundToDouble(BigMul(x.m, y.m), Pow2(x.k + y.k))
NumDiv(x, y) ==
    CASE Done(x) /\ Done(y) ->
    IF IsNaN(x) \/ IsNaN(y) THEN NaN
    ELSE IF x = Infinity THEN (IF y = Infinity THEN NaN ELSE Infinity)
    ELSE IF y = Infinity THEN Num(Zero, 0)
    ELSE IF IsZeroNumber(y) THEN (IF IsZeroNumber(x) THEN NaN ELSE Infinity)
    ELSE RoundToDouble(BigMul(x.m, Pow2(y.k)), BigMul(y.m, Pow2(x.k)))
NumAdd(x, y) ==
    CASE Done(x) /\ Done(y) ->
    IF IsNaN(x) \/ IsNaN(y) THEN NaN
    ELSE IF x = Infinity \/ y = Infinity THEN Infinity
    ELSE LET k == IF x.k > y.k THEN x.k ELSE y.k
         IN  RoundToDouble(BigAdd(BigMul(x.m, Pow2(k - x.k)), BigMul(y.m, Pow2(k - y.k))),
                           Pow2(k))

\* The sign of x - y for numbers and bigints alike (JavaScript compares a
\* number with a bigint by mathematical value), and 2 when either is NaN:
\* NaN is not equal to, above or below anything.
ValCmp(x, y) ==
    CASE Done(x) /\ Done(y) ->
    IF IsNaN(x) \/ IsNaN(y) THEN 2
    ELSE IF x = Infinity THEN (IF y = Infinity THEN 0 ELSE 1)
    ELSE IF y = Infinity THEN -1
    ELSE BigCmp(BigMul(x.m, Pow2(y.k)), BigMul(y.m, Pow2(x.k)))

\* x < y, x <= y and x >= y
ValLt(x, y) == ValCmp(x, y) = -1
ValLe(x, y) == ValCmp(x, y) \in {-1, 0}
ValGe(x, y) == ValCmp(x, y) \in {0, 1}

\* x === y ? 0 : x > y ? 1 : -1
ThreeWaySign(c) == IF c = 2 THEN -1 ELSE c
ThreeWay(x, y) == ThreeWaySign(ValCmp(x, y))

\* Math.trunc of a number, as a number
MathTrunc(x) ==
    CASE Done(x) ->
    IF IsFinite(x) /\ x.k > 0 THEN Num(BigDiv(x.m, Pow2(x.k)), 0) ELSE x

\* BigInt(x): a bigint is returned as it is, a number is converted only when
\* it is an integer (Infinity and NaN are none), and BigInt throws a
\* RangeError otherwise
BigIntOf(x) ==
    CASE Done(x) ->
    IF IsBigInt(x) THEN x
    ELSE IF IsFinite(x) /\ x.k = 0 THEN BigI(x.m)
    ELSE RangeError

\* Number(x): the double nearest to a bigint
NumberOf(x) ==
    CASE Done(x) ->
    IF IsBigInt(x) THEN RoundToDouble(x.m, One) ELSE x

(***************************************************************************)
(* String(n) of a positive number, as far as getPrecision reads it.        *)
(* ECMAScript's Number::toString takes the least count k of digits such    *)
(* that some k-digit integer d gives back n when d * 10^(nExp - k) is      *)
(* rounded to a double; of two such d the one nearer to n.  nExp places    *)
(* the decimal point: 10^(nExp - 1) <= n < 10^nExp.                        *)
(***************************************************************************)
\* x >= 10^e, for a number x > 0 and an integer e
GePow10(x, e) ==
    BigLe(BigMul(Pow2(x.k), Pow10(IF e >= 0 THEN e ELSE 0)),
          BigMul(x.m, Pow10(IF e >= 0 THEN 0 ELSE -e)))

DecExpFrom(x, e) ==
    CASE Done(e) ->
    IF GePow10(x, e) THEN e + 1 ELSE e

DecExp(x) == DecExpFrom(x, DecLen(x.m) - DecLen(Pow2(x.k)))

\* the double nearest to d * 10^e
FromDecimal(d, e) ==
    CASE Done(d) /\ Done(e) ->
    RoundToDouble(IF e >= 0 THEN BigMul(d, Pow10(e)) ELSE d,
                  IF e >= 0 THEN One ELSE Pow10(-e))

\* The k-digit candidates are lo = floor(x * 10^(k - nExp)) = floor(top / bot)
\* and lo + 1; okLo and okHi tell which of them round back to x.  With no
\* candidate the search goes on with k + 1 digits (17 always suffice).  When
\* lo + 1 is taken and is 10^k, the digits are those of 1 and the exponent
\* grows by one.
RECURSIVE ShortestFrom(_, _, _)
ShortestPick(x, nExp, k, top, bot, lo, okLo, okHi) ==
    CASE Done(okLo) /\ Done(okHi) ->
    IF ~okLo /\ ~okHi /\ k < 17 THEN ShortestFrom(x, nExp, k + 1)
    ELSE IF /\ okHi
            /\ BigAdd(lo, One) = Pow10(k)
            \* lo + 1 is the nearer: 2 x above lo + (lo + 1), or a tie and lo odd
            /\ \/ ~okLo
               \/ BigCmp(BigAdd(top, top), BigMul(BigAdd(BigAdd(lo, lo), One), bot))
                      + (IF BigIsOdd(lo) THEN 1 ELSE 0) > 0
    THEN [k |-> 1, n |-> nExp + 1]
    ELSE [k |-> k, n |-> nExp]

ShortestTry(x, nExp, k, top, bot, lo) ==
    CASE Done(lo) ->
    ShortestPick(x, nExp, k, top, bot, lo,
                 FromDecimal(lo, nExp - k) = x,
                 FromDecimal(BigAdd(lo, One), nExp - k) = x)

ShortestDiv(x, nExp, k, top, bot) ==
    CASE Done(top) /\ Done(bot) ->
    ShortestTry(x, nExp, k, top, bot, BigDiv(top, bot))

ShortestFrom(x, nExp, k) ==
    CASE Done(nExp) ->
    ShortestDiv(x, nExp, k,
                IF k >= nExp THEN BigMul(x.m, Pow10(k - nExp)) ELSE x.m,
                IF k >= nExp THEN Pow2(x.k) ELSE BigMul(Pow2(x.k), Pow10(nExp - k)))

\* the digit count k and the exponent n of String(x), x > 0
Shortest(x) == ShortestFrom(x, DecExp(x), 1)

\* The characters of String(n) after its first ".", for the digit count d.k
\* and exponent d.n: none for an integer; k - n digits in decimal notation
\* (0 < n <= 21, and -6 < n <= 0 with its zeros after the point); in
\* exponent notation "d.ddde-7" the other digits, the e, the sign and the
\* exponent's digits, unless the single digit leaves no point at all.
FractionChars(d) ==
    IF d.k <= d.n /\ d.n <= 21 THEN 0
    ELSE IF -6 < d.n /\ d.n <= 21 THEN d.k - d.n
    ELSE IF d.k = 1 THEN 0
    ELSE (d.k - 1) + 2 + SmallDigits(IF d.n >= 1 THEN d.n - 1 ELSE 1 - d.n)

\* String(0), String(Infinity) and String(NaN) have no "."
getPrecision(n) ==
    CASE Done(n) ->
    IF ~IsFinite(n) \/ Len(n.m) = 0 THEN 0 ELSE FractionChars(Shortest(n))

(***************************************************************************)
(* The unit table and the conversions of src/index.ts.                     *)
(***************************************************************************)
\* the unit of a resource parsed from a string without one
Undefined == "undefined"

Units == {"u", "m", "k", "M", "G", "T", "P", "E", "", "B",
          "Ki", "Mi", "Gi", "Ti", "Pi", "Ei"}

unitMultiplier ==
    [unit \in Units |->
        CASE unit = "u"  -> FromDecimal(One, -6)
          [] unit = "m"  -> FromDecimal(One, -3)
          [] unit = "k"  -> Num(Pow10(3), 0)
          [] unit = "M"  -> Num(Pow10(6), 0)
          [] unit = "G"  -> Num(Pow10(9), 0)
          [] unit = "T"  -> Num(Pow10(12), 0)
          [] unit = "P"  -> Num(Pow10(15), 0)
          [] unit = "E"  -> BigI(Pow10(18))
          [] unit = ""   -> Num(One, 0)
          [] unit = "B"  -> Num(One, 0)
          [] unit = "Ki" -> Num(<<2 ^ 10>>, 0)
          [] unit = "Mi" -> Num(Pow2(20), 0)
          [] unit = "Gi" -> Num(Pow2(30), 0)
          [] unit = "Ti" -> Num(Pow2(30 + 10), 0)
          [] unit = "Pi" -> BigI(Pow2(30 + 20))
          [] unit = "Ei" -> BigI(Pow2(30 + 30))]

\* a K8sParsedResource
Resource(number, unit) == [t |-> "resource", number |-> number, unit |-> unit]

\* Number.MAX_SAFE_INTEGER, 2^53 - 1
MAX_SAFE_INTEGER == Num(BigSub(Pow2(53), One), 0)

\* 10 ** precision, a number
TenToThe(precision) ==
    CASE Done(precision) ->
    RoundToDouble(Pow10(precision), One)

\* (BigInt(number * pMul) * BigInt(uMul)) / BigInt(pMul): BigInt throws on a
\* number that is no integer, and the bigint division truncates
ScaledBig(scaled, bigMul, pMul) ==
    CASE Done(scaled) /\ Done(bigMul) /\ Done(pMul) ->
    IF IsThrown(scaled) \/ IsThrown(bigMul) THEN RangeError
    ELSE BigI(BigDiv(BigMul(scaled.m, bigMul.m), BigIntOf(pMul).m))

ScaledProduct(number, uMul, pMul) ==
    CASE Done(number) /\ Done(pMul) ->
    ScaledBig(BigIntOf(NumMul(number, pMul)), BigIntOf(uMul), pMul)

\* parsedResourceToBaseUnit from `const result` on, for a floating multiplier
BaseUnitResult(number, uMul, result) ==
    CASE Done(result) ->
    IF ValLe(result, MAX_SAFE_INTEGER) THEN result
    ELSE ScaledProduct(number, uMul, TenToThe(getPrecision(number)))

\* A variant of BaseUnitWith that takes every multiplier as a number, so that
\* only a product above the safe-integer range is a bigint.  C10_ZeroBase
\* tells the two apart.
BaseUnitFloating(number, uMul) ==
    BaseUnitResult(number, NumberOf(uMul), NumMul(number, NumberOf(uMul)))

\* parsedResourceToBaseUnit once the multiplier is known
BaseUnitWith(number, uMul) ==
    CASE Done(number) /\ Done(uMul) ->
    IF IsBigInt(uMul) THEN ScaledProduct(number, uMul, TenToThe(getPrecision(number)))
    ELSE BaseUnitResult(number, uMul, NumMul(number, uMul))

parsedResourceToBaseUnit(r) ==
    BaseUnitWith(r.number, IF r.unit = Undefined THEN Num(One, 0)
                           ELSE unitMultiplier[r.unit])

\* the number -1, 0 or 1 a comparison returns
Sign(c) == [t |-> "number", sign |-> c]

\* compareParsedResources once either base value is a bigint
CompareBig(bigA, bigB) ==
    CASE Done(bigA) /\ Done(bigB) ->
    IF IsThrown(bigA) \/ IsThrown(bigB) THEN RangeError
    ELSE Sign(BigCmp(bigA.m, bigB.m))

\* compareParsedResources from the two base values on
CompareBase(baseUnitA, baseUnitB) ==
    CASE Done(baseUnitA) /\ Done(baseUnitB) ->
    IF IsThrown(baseUnitA) \/ IsThrown(baseUnitB) THEN RangeError
    ELSE IF ~IsBigInt(baseUnitA) /\ ~IsBigInt(baseUnitB)
    THEN Sign(ThreeWay(baseUnitA, baseUnitB))
    ELSE CompareBig(BigIntOf(baseUnitA), BigIntOf(baseUnitB))

compareParsedResources(a, b) ==
    CASE Done(a) /\ Done(b) ->
    IF a.unit = b.unit THEN Sign(ThreeWay(a.number, b.number))
    ELSE CompareBase(parsedResourceToBaseUnit(a), parsedResourceToBaseUnit(b))

cpuUnits == <<"u", "m", "k", "", "M", "G", "T", "P", "E">>
memoryUnits == <<"", "Ki", "Mi", "Gi", "Ti", "Pi", "Ei">>

\* the multiplier of a unit for a base value: BigInt(multiplier) for a bigint
\* base value (BigInt throws on the fractions u and m)
MultiplierFor(baseUnitNumber, multiplier) ==
    IF IsBigInt(baseUnitNumber) THEN BigIntOf(multiplier) ELSE multiplier

\* The scan `while (i--)` of the two scale functions over a unit list, from
\* index i down: the first unit whose multiplier the base value reaches, and
\* the first of the list when none does.  A number is truncated to a bigint
\* n to be compared with a bigint multiplier, and BigInt throws on Infinity
\* and NaN.  A multiplier RangeError in the result tells that BigInt threw.
RECURSIVE ScanUnits(_, _, _)
ScanReach(units, baseUnitNumber, i, multiplier, n) ==
    CASE Done(n) ->
    IF IsThrown(n) THEN [unit |-> units[i], multiplier |-> RangeError]
    ELSE IF i = 1 \/ ValGe(n, multiplier)
    THEN [unit |-> units[i], multiplier |-> multiplier]
    ELSE ScanUnits(units, baseUnitNumber, i - 1)

ScanStep(units, baseUnitNumber, i, multiplier) ==
    CASE Done(baseUnitNumber) /\ Done(multiplier) ->
    IF IsThrown(multiplier) THEN [unit |-> units[i], multiplier |-> RangeError]
    ELSE ScanReach(units, baseUnitNumber, i, multiplier,
                   IF ~IsBigInt(baseUnitNumber) /\ IsBigInt(multiplier)
                   THEN BigIntOf(MathTrunc(baseUnitNumber))
                   ELSE baseUnitNumber)

ScanUnits(units, baseUnitNumber, i) ==
    ScanStep(units, baseUnitNumber, i,
             MultiplierFor(baseUnitNumber, unitMultiplier[units[i]]))

\* the division that ends both scale functions once either operand is a
\* bigint, and Number() of its result
ScaleBig(bigBase, bigMul, unit) ==
    CASE Done(bigBase) /\ Done(bigMul) ->
    IF IsThrown(bigBase) \/ IsThrown(bigMul) THEN RangeError
    ELSE Resource(NumberOf(BigI(BigDiv(bigBase.m, bigMul.m))), unit)

\* the end of both scale functions, for the unit and multiplier in found
ScaleBy(baseUnitNumber, found) ==
    CASE Done(baseUnitNumber) /\ Done(found) ->
    IF IsThrown(found.multiplier) THEN RangeError
    ELSE IF IsBigInt(baseUnitNumber) \/ IsBigInt(found.multiplier)
    THEN ScaleBig(BigIntOf(baseUnitNumber), BigIntOf(found.multiplier), found.unit)
    ELSE Resource(NumDiv(baseUnitNumber, found.multiplier), found.unit)

\* `if (unit)`: undefined and the empty string are both falsy
Truthy(unit) == unit # Undefined /\ unit # ""

\* A variant of scaleBaseUnitCpu without the shortcut for zero: zero is scanned
\* like every other value below 1 and ends on the first unit of the list.
\* C11_SmallBase tells the two apart.
ScaleCpuNoShortcut(baseUnitNumber, unit) ==
    ScaleBy(baseUnitNumber,
            IF Truthy(unit)
            THEN [unit |-> unit,
                  multiplier |-> MultiplierFor(baseUnitNumber, unitMultiplier[unit])]
            ELSE ScanUnits(cpuUnits, baseUnitNumber,
                           IF ValLt(baseUnitNumber, Num(One, 0)) THEN 3
                           ELSE Len(cpuUnits)))

scaleBaseUnitCpu(baseUnitNumber, unit) ==
    IF ~Truthy(unit) /\ IsZeroValue(baseUnitNumber)
    THEN Resource(Num(Zero, 0), Undefined)
    ELSE ScaleBy(baseUnitNumber,
                 IF Truthy(unit)
                 THEN [unit |-> unit,
                       multiplier |-> MultiplierFor(baseUnitNumber, unitMultiplier[unit])]
                 ELSE ScanUnits(cpuUnits, baseUnitNumber,
                                IF ValLt(baseUnitNumber, Num(One, 0)) THEN 3
                                ELSE Len(cpuUnits)))

scaleBaseUnitMemory(baseUnitNumber, unit) ==
    ScaleBy(baseUnitNumber,
            IF Truthy(unit)
            THEN [unit |-> unit,
                  multiplier |-> MultiplierFor(baseUnitNumber, unitMultiplier[unit])]
            ELSE ScanUnits(memoryUnits, baseUnitNumber, Len(memoryUnits)))

AddBig(bigA, bigB) ==
    CASE Done(bigA) /\ Done(bigB) ->
    IF IsThrown(bigA) \/ IsThrown(bigB) THEN RangeError
    ELSE BigI(BigAdd(bigA.m, bigB.m))

add(a, b) ==
    CASE Done(a) /\ Done(b) ->
    IF IsBigInt(a) \/ IsBigInt(b) THEN AddBig(BigIntOf(a), BigIntOf(b))
    ELSE NumAdd(a, b)

(***************************************************************************)
(* The parser.  A string is a sequence of one-character strings.           *)
(***************************************************************************)
DigitChars == <<"0", "1", "2", "3", "4", "5", "6", "7", "8", "9">>

IsDigit(c) == \E d \in 1..Len(DigitChars) : DigitChars[d] = c
DigitVal(c) == (CHOOSE d \in 1..Len(DigitChars) : DigitChars[d] = c) - 1

\* the characters of each unit of the regular expression's alternation
UnitChars ==
    [unit \in Units \ {""} |->
        CASE unit = "Ki" -> <<"K", "i">>
          [] unit = "Mi" -> <<"M", "i">>
          [] unit = "Gi" -> <<"G", "i">>
          [] unit = "Ti" -> <<"T", "i">>
          [] unit = "Pi" -> <<"P", "i">>
          [] unit = "Ei" -> <<"E", "i">>
          [] OTHER -> <<unit>>]

\* \d+ from position i: the position after the longest run of digits
SkipDigits(s, i) ==
    LET stops == {j \in i..Len(s) : ~IsDigit(s[j])}
    IN  IF stops = {} THEN Len(s) + 1
        ELSE CHOOSE j \in stops : \A j2 \in stops : j <= j2

\* (?:c\d+)? from position p: the position after the group when it matches
\* there, and p when it does not
SkipOptional(s, p, c) ==
    IF p <= Len(s) /\ s[p] = c /\ SkipDigits(s, p + 1) > p + 1
    THEN SkipDigits(s, p + 1) ELSE p

NoMatch == [t |-> "null"]

\* the match: the integer digits end before p1, the fraction before p2, the
\* exponent before p3
Groups(s, p1, p2, p3, unit) ==
    [t |-> "match",
     int |-> SubSeq(s, 1, p1 - 1),
     fraction |-> IF p2 > p1 THEN SubSeq(s, p1 + 1, p2 - 1) ELSE <<>>,
     exponent |-> IF p3 > p2 THEN SubSeq(s, p2 + 1, p3 - 1) ELSE <<>>,
     unit |-> unit]

\* A variant of MatchUnit for a pattern without the closing $: what follows
\* the number and is not a unit is left unread.  C5_ParseFinite tells the two
\* apart.
MatchUnitUnanchored(s, p1, p2, p3) ==
    IF p3 <= Len(s) /\ \E unit \in DOMAIN UnitChars : UnitChars[unit] = SubSeq(s, p3, Len(s))
    THEN Groups(s, p1, p2, p3,
                CHOOSE unit \in DOMAIN UnitChars : UnitChars[unit] = SubSeq(s, p3, Len(s)))
    ELSE Groups(s, p1, p2, p3, Undefined)

\* (unit)?$ : what follows the number is nothing or exactly one unit
MatchUnit(s, p1, p2, p3) ==
    IF p3 > Len(s) THEN Groups(s, p1, p2, p3, Undefined)
    ELSE IF \E unit \in DOMAIN UnitChars : UnitChars[unit] = SubSeq(s, p3, Len(s))
    THEN Groups(s, p1, p2, p3,
                CHOOSE unit \in DOMAIN UnitChars : UnitChars[unit] = SubSeq(s, p3, Len(s)))
    ELSE NoMatch

MatchExponent(s, p1, p2) == MatchUnit(s, p1, p2, SkipOptional(s, p2, "e"))

MatchFraction(s, p1) ==
    IF p1 = 1 THEN NoMatch ELSE MatchExponent(s, p1, SkipOptional(s, p1, "."))

\* k8sResource.match(reK8sResource): the groups number and unit, or null.
\* ^ \d+ (\.\d+)? (e\d+)? (unit)? $ , each optional part taken when it matches.
reK8sResource(s) == MatchFraction(s, SkipDigits(s, 1))

\* the natural a string of digits writes
DigitsToBig(ds) ==
    LET n == Len(ds)
        at(j) == IF j >= 1 THEN DigitVal(ds[j]) ELSE 0
    IN  BigNorm([i \in 1..((n + 3) \div 4) |->
                    at(n - 4 * (i - 1)) + 10 * at(n - 4 * (i - 1) - 1)
                    + 100 * at(n - 4 * (i - 1) - 2) + 1000 * at(n - 4 * (i - 1) - 3)])

\* a natural below 2^31 as an integer
RECURSIVE BigToInt(_)
BigToInt(a) == IF Len(a) = 0 THEN 0 ELSE a[1] + BASE * BigToInt(Tail(a))

\* d * 10^(x - p) has more than 309 digits, for an exponent x of any size
TooManyDigits(d, x, p) == BigLt(BigOf(p + MaxDecExp), BigAdd(x, BigOf(DecLen(d))))

\* the double nearest to d * 10^(x - p), with overflow: a number of more
\* than 309 digits is Infinity, and any other has x <= p + 309
ParseDecimal(d, x, p) ==
    IF Len(d) = 0 THEN Num(Zero, 0)
    ELSE IF TooManyDigits(d, x, p) THEN Infinity
    ELSE FromDecimal(d, BigToInt(x) - p)

\* parseFloat of digits[.digits][e digits]: the double nearest to
\* d * 10^(x - p), for the digits d, the count p of fraction digits and the
\* exponent x, each read in full
parseFloat(int, fraction, exponent) ==
    ParseDecimal(DigitsToBig(int \o fraction), DigitsToBig(exponent), Len(fraction))

\* the Error parseResource throws
FormatError == [t |-> "Error"]

ParseNumber(number, unit) ==
    IF ~IsFinite(number) THEN FormatError ELSE Resource(number, unit)

ParseMatch(match) ==
    IF match = NoMatch THEN FormatError
    ELSE ParseNumber(parseFloat(match.int, match.fraction, match.exponent), match.unit)

parseResource(k8sResource) == ParseMatch(reK8sResource(k8sResource))

BaseUnitOrError(r) ==
    IF r = FormatError THEN FormatError ELSE parsedResourceToBaseUnit(r)

resourceStringToBaseUnit(s) == BaseUnitOrError(parseResource(s))

CompareOrError(ra, rb) ==
    IF ra = FormatError \/ rb = FormatError THEN FormatError
    ELSE compareParsedResources(ra, rb)

compareResourceStrings(a, b) == CompareOrError(parseResource(a), parseResource(b))

(***************************************************************************)
(* The callers.  The library keeps no state: every function is applied to  *)
(* inputs a caller draws, and the state records the call and what it       *)
(* returned.  A quantity is written as a decimal literal d / 10^p with a   *)
(* unit; its number is what parseFloat makes of the literal.               *)
(***************************************************************************)
VARIABLES
    op,      \* the last call made
    q,       \* the quantity given to toBase / the first one compared
    q2,      \* the second quantity compared
    q3,      \* the third quantity compared
    unit,    \* the unit argument of a scale call
    base,    \* the base value toBase returned
    out,     \* what the last call returned
    cmp,     \* what the comparisons of q, q2 and q3 returned
    acc,     \* the running sum of an accumulation
    added,   \* the quantities whose base values were added to acc
    text,    \* the string given to the parser
    text2    \* the second string of compareResourceStrings

vars == <<op, q, q2, q3, unit, base, out, cmp, acc, added, text, text2>>

None == [t |-> "none"]

\* bounds of the inputs
MaxPrec == 2
MaxAdds == 3
MaxUnit == 2
MaxZeros == 9999
MaxLen == 5

\* a decimal literal: the digits d as a natural and the count p of digits
\* after the point
Lit(n, p) == [d |-> BigOf(n), p |-> p]
Quantity(n, p, u) == [lit |-> Lit(n, p), unit |-> u]

MantDigits == {0, 1, 2, 5, 7, 15}
UnitArgs == Units \cup {Undefined}
Quantities == {Quantity(n, p, u) : n \in MantDigits, p \in 0..MaxPrec, u \in UnitArgs}

\* quantities at the ends of the range of a double: 1.5 * 10^308 k and
\* 10^308 E, written with all their digits, and 5 * 10^-324, the least
\* number above 0, written with 324 digits after the point
ExtremeQuantities ==
    {[lit |-> [d |-> BigMul(BigOf(15), Pow10(307)), p |-> 0], unit |-> "k"],
     [lit |-> [d |-> Pow10(308), p |-> 0], unit |-> "E"],
     Quantity(5, 324, Undefined), Quantity(5, 324, "u")}

\* the K8sParsedResource the parser returns for a quantity
LitNumber(l) == FromDecimal(l.d, 0 - l.p)
Parsed(x) == Resource(LitNumber(x.lit), x.unit)

IsValue(v) == IsNumber(v) \/ IsBigInt(v)

UnitsOf(list) == {list[i] : i \in 1..Len(list)}

(* parsedResourceToBaseUnit, then the two scale functions on what it returned *)
Init ==
    /\ op = "start"
    /\ q \in Quantities \cup ExtremeQuantities
    /\ q2 = None /\ q3 = None /\ unit = None /\ base = None /\ out = None
    /\ cmp = None /\ acc = None /\ added = None /\ text = None /\ text2 = None

ToBase ==
    /\ op = "start"
    /\ op' = "toBase"
    /\ base' = parsedResourceToBaseUnit(Parsed(q))
    /\ out' = base'
    /\ UNCHANGED <<q, q2, q3, unit, cmp, acc, added, text, text2>>

ScaleCpu ==
    /\ op = "toBase"
    /\ IsValue(base)
    /\ \E u \in UnitsOf(cpuUnits) \cup {Undefined} :
        /\ unit' = u
        /\ out' = scaleBaseUnitCpu(base, u)
    /\ op' = "scaleCpu"
    /\ UNCHANGED <<q, q2, q3, base, cmp, acc, added, text, text2>>

ScaleMemory ==
    /\ op = "toBase"
    /\ IsValue(base)
    /\ \E u \in UnitsOf(memoryUnits) \cup {Undefined} :
        /\ unit' = u
        /\ out' = scaleBaseUnitMemory(base, u)
    /\ op' = "scaleMemory"
    /\ UNCHANGED <<q, q2, q3, base, cmp, acc, added, text, text2>>

Next == ToBase \/ ScaleCpu \/ ScaleMemory

Spec == Init /\ [][Next]_vars

(* compareParsedResources on the pairs of three quantities *)
CompareQuantities ==
    {Quantity(5, 1, Undefined), Quantity(512, 0, Undefined), Quantity(1, 0, "E"),
     Quantity(5, 1, "Ki"), Quantity(1, 0, "Gi"), Quantity(1024, 0, "Mi"),
     Quantity(1, 0, "Mi"), Quantity(1, 0, "M"),
     Quantity(5, 1, "Ei"), Quantity(512, 0, "Pi")}

InitCompare ==
    /\ op = "start"
    /\ q \in CompareQuantities
    /\ q2 \in CompareQuantities
    /\ q3 = None /\ unit = None /\ base = None /\ out = None
    /\ cmp = [ab |-> None, ba |-> None, bc |-> None, ac |-> None]
    /\ acc = None /\ added = None /\ text = None /\ text2 = None

CompareAB ==
    /\ op = "start"
    /\ op' = "ab"
    /\ out' = compareParsedResources(Parsed(q), Parsed(q2))
    /\ cmp' = [cmp EXCEPT !.ab = out']
    /\ UNCHANGED <<q, q2, q3, unit, base, acc, added, text, text2>>

CompareBA ==
    /\ op = "ab"
    /\ op' = "ba"
    /\ out' = compareParsedResources(Parsed(q2), Parsed(q))
    /\ cmp' = [cmp EXCEPT !.ba = out']
    /\ UNCHANGED <<q, q2, q3, unit, base, acc, added, text, text2>>

CompareBC ==
    /\ op = "ba"
    /\ op' = "bc"
    /\ \E x \in CompareQuantities :
        /\ q3' = x
        /\ out' = compareParsedResources(Parsed(q2), Parsed(x))
    /\ cmp' = [cmp EXCEPT !.bc = out']
    /\ UNCHANGED <<q, q2, unit, base, acc, added, text, text2>>

CompareAC ==
    /\ op = "bc"
    /\ op' = "ac"
    /\ out' = compareParsedResources(Parsed(q), Parsed(q3))
    /\ cmp' = [cmp EXCEPT !.ac = out']
    /\ UNCHANGED <<q, q2, q3, unit, base, acc, added, text, text2>>

NextCompare == CompareAB \/ CompareBA \/ CompareBC \/ CompareAC

SpecCompare == InitCompare /\ [][NextCompare]_vars

(* add, accumulating base values from 0 as README.md lines 263-286 do *)
AddQuantities ==
    {Quantity(5, 1, Undefined), Quantity(15, 1, Undefined), Quantity(25, 1, Undefined),
     Quantity(1, 0, Undefined), Quantity(1, 0, "E")}

InitAdd ==
    /\ op = "start"
    /\ acc = Num(Zero, 0)
    /\ added = <<>>
    /\ q = None /\ q2 = None /\ q3 = None /\ unit = None /\ base = None
    /\ out = None /\ cmp = None /\ text = None /\ text2 = None

Add ==
    /\ IsValue(acc)
    /\ Len(added) < MaxAdds
    /\ \E x \in AddQuantities :
        /\ q' = x
        /\ base' = parsedResourceToBaseUnit(Parsed(x))
        /\ acc' = add(acc, base')
        /\ added' = Append(added, x)
    /\ op' = "add"
    /\ out' = acc'
    /\ UNCHANGED <<q2, q3, unit, cmp, text, text2>>

NextAdd == Add

SpecAdd == InitAdd /\ [][NextAdd]_vars

(* the functions that take strings *)
Alphabet == {"9", ".", "e", "-", " ", "K", "i"}

\* the strings of at most n characters of A
RECURSIVE StringsOver(_, _)
StringsOver(A, n) ==
    IF n = 0 THEN {<<>>}
    ELSE {<<>>} \cup {<<c>> \o s : c \in A, s \in StringsOver(A, n - 1)}

StringsOf(n) == StringsOver(Alphabet, n)

\* a number and then at most MaxUnit of the letters the units are written
\* with and the e of the exponent: every unit, and what is none
UnitLetters == {"u", "m", "k", "M", "G", "T", "P", "E", "B", "K", "i", "e"}
NumberTexts == {<<"9">>, <<"9", ".", "9">>, <<"9", "e", "9">>}
UnitTexts == {n \o u : n \in NumberTexts, u \in StringsOver(UnitLetters, MaxUnit)}

\* 10^-(MaxZeros + 1) written with all its fraction digits, times a power
\* of ten of five digits or one just below
Zeros(n) == [i \in 1..n |-> "0"]
LongExponents ==
    {<<"1", "0", "0", "0", "1">>, <<"1", "0", "3", "1", "0">>, <<"9", "9", "9", "8">>}
LongTexts ==
    {<<"0", ".">> \o Zeros(MaxZeros) \o <<"1", "e">> \o x : x \in LongExponents}

\* a number with an exponent of five digits
ExponentTexts == {<<"0", "e">> \o x : x \in LongExponents}
                 \cup {<<"1", "e">> \o x : x \in LongExponents}

Texts == StringsOf(MaxLen) \cup UnitTexts \cup LongTexts \cup ExponentTexts

\* the second argument of compareResourceStrings: a valid and an invalid
\* one, and for a long string the long ones
OtherStrings == {<<"9">>, <<"-">>}
OtherStringsFor(s) == OtherStrings \cup {t \in LongTexts : s \in LongTexts}

InitParse ==
    /\ op = "start"
    /\ text \in Texts
    /\ text2 = None
    /\ q = None /\ q2 = None /\ q3 = None /\ unit = None /\ base = None
    /\ out = None /\ cmp = None /\ acc = None /\ added = None

Parse ==
    /\ op = "start"
    /\ op' = "parse"
    /\ out' = parseResource(text)
    /\ UNCHANGED <<q, q2, q3, unit, base, cmp, acc, added, text, text2>>

ToBaseFromString ==
    /\ op = "start"
    /\ op' = "toBaseFromString"
    /\ out' = resourceStringToBaseUnit(text)
    /\ UNCHANGED <<q, q2, q3, unit, base, cmp, acc, added, text, text2>>

CompareStrings ==
    /\ op = "start"
    /\ op' = "compareStrings"
    /\ \E t \in OtherStringsFor(text) :
        /\ text2' = t
        /\ out' = compareResourceStrings(text, t)
    /\ UNCHANGED <<q, q2, q3, unit, base, cmp, acc, added, text>>

NextParse == Parse \/ ToBaseFromString \/ CompareStrings

SpecParse == InitParse /\ [][NextParse]_vars

(***************************************************************************)
(* What the specification says, stated over exact values.  A quantity x    *)
(* stands for the rational D * num / (10^p * den): D its digits, p the     *)
(* count of digits after its point and num / den the multiplier of its     *)
(* unit.                                                                   *)
(***************************************************************************)
ExactMultiplier(u) ==
    CASE u = "u"  -> [num |-> One, den |-> Pow10(6)]
      [] u = "m"  -> [num |-> One, den |-> Pow10(3)]
      [] u = "k"  -> [num |-> Pow10(3), den |-> One]
      [] u = "M"  -> [num |-> Pow10(6), den |-> One]
      [] u = "G"  -> [num |-> Pow10(9), den |-> One]
      [] u = "T"  -> [num |-> Pow10(12), den |-> One]
      [] u = "P"  -> [num |-> Pow10(15), den |-> One]
      [] u = "E"  -> [num |-> Pow10(18), den |-> One]
      [] u = "Ki" -> [num |-> Pow2(10), den |-> One]
      [] u = "Mi" -> [num |-> Pow2(20), den |-> One]
      [] u = "Gi" -> [num |-> Pow2(30), den |-> One]
      [] u = "Ti" -> [num |-> Pow2(40), den |-> One]
      [] u = "Pi" -> [num |-> Pow2(50), den |-> One]
      [] u = "Ei" -> [num |-> Pow2(60), den |-> One]
      [] OTHER    -> [num |-> One, den |-> One]

ExactNum(x) == BigMul(x.lit.d, ExactMultiplier(x.unit).num)
ExactDen(x) == BigMul(Pow10(x.lit.p), ExactMultiplier(x.unit).den)

\* the units whose multiplier is an arbitrary-precision integer
BigUnits == {"E", "Pi", "Ei"}

\* the value of x is above the safe-integer range 2^53 - 1
AboveSafe(x) == BigLt(BigMul(BigSub(Pow2(53), One), ExactDen(x)), ExactNum(x))

\* toBase(x) is specified to be an arbitrary-precision integer
Promoted(x) == x.unit \in BigUnits \/ AboveSafe(x)

\* C1: for a quantity whose unit has an arbitrary-precision multiplier, or
\* whose product is above the safe-integer range, toBase returns exactly
\* trunc(D * multiplier / 10^p) as an arbitrary-precision integer.
C1_ToBaseExact ==
    (op = "toBase" /\ Promoted(q)) => base = BigI(BigDiv(ExactNum(q), ExactDen(q)))

\* the sign of value(x) - value(y)
ExactSign(x, y) ==
    BigCmp(BigMul(ExactNum(x), ExactDen(y)), BigMul(ExactNum(y), ExactDen(x)))

\* C2: compare returns -1, 0 or 1, the sign of value(a) - value(b), for every
\* pair of valid quantities.
C2_CompareSign ==
    op = "ab" => out = Sign(ExactSign(q, q2))

\* the base value v reaches the multiplier of unit u: v >= num / den
ReachesUnit(v, u) ==
    BigLe(BigMul(ExactMultiplier(u).num, Pow2(v.k)),
          BigMul(v.m, ExactMultiplier(u).den))

\* u's multiplier is at most w's
UnitLe(u, w) ==
    BigLe(BigMul(ExactMultiplier(u).num, ExactMultiplier(w).den),
          BigMul(ExactMultiplier(w).num, ExactMultiplier(u).den))

\* the largest unit of a family's list whose multiplier v reaches
LargestUnit(list, v) ==
    CHOOSE u \in UnitsOf(list) :
        /\ ReachesUnit(v, u)
        /\ \A w \in UnitsOf(list) : ReachesUnit(v, w) => UnitLe(w, u)

\* C3: with no unit supplied, scaleCpu and scaleMemory select the largest unit
\* of the family's list whose multiplier does not exceed the base value, for
\* every base value of at least 1.
C3_AutoSelect ==
    /\ (op = "scaleCpu" /\ unit = Undefined /\ ReachesUnit(base, ""))
        => (out.t = "resource" /\ out.unit = LargestUnit(cpuUnits, base))
    /\ (op = "scaleMemory" /\ unit = Undefined /\ ReachesUnit(base, ""))
        => (out.t = "resource" /\ out.unit = LargestUnit(memoryUnits, base))

\* a scale call of the family of q's unit was given q's unit
ScaledBack ==
    \/ op = "scaleCpu" /\ unit = q.unit /\ q.unit \in UnitsOf(cpuUnits)
    \/ op = "scaleMemory" /\ unit = q.unit /\ q.unit \in UnitsOf(memoryUnits)

\* C4: round trip.  For a quantity q whose unit is of its family's list,
\* scaling toBase(q) to q's unit returns q's unit, and reproduces q's mantissa
\* exactly when the base value is an arbitrary-precision integer.
C4_RoundTrip ==
    ScaledBack =>
        /\ out.t = "resource"
        /\ out.unit = q.unit
        /\ IsBigInt(base) => out.number = LitNumber(q.lit)

\* the multiplier of u truncated to an integer, and as a double
TruncMultiplier(u) == BigDiv(ExactMultiplier(u).num, ExactMultiplier(u).den)
FloatMultiplier(u) == RoundToDouble(ExactMultiplier(u).num, ExactMultiplier(u).den)

\* the mantissa the specification gives for base value v and an explicit unit
\* u: the floating quotient when both are floating, and the integer quotient
\* of the two truncated to integers when either is an arbitrary-precision one
ExplicitMantissa(v, u) ==
    IF IsNumber(v) /\ u \notin BigUnits THEN NumDiv(v, FloatMultiplier(u))
    ELSE RoundToDouble(BigDiv(BigDiv(v.m, Pow2(v.k)), TruncMultiplier(u)), One)

\* C8: with a unit of the family's list explicitly supplied (the no-unit
\* member "" included), the result carries that unit and its mantissa is the
\* base value divided by the unit's multiplier; a mixed-type division always
\* produces a result.
C8_ExplicitUnit ==
    (op \in {"scaleCpu", "scaleMemory"} /\ unit # Undefined) =>
        /\ out.t = "resource"
        /\ out.unit = unit
        /\ (TruncMultiplier(unit) # Zero \/ IsNumber(base))
            => out.number = ExplicitMantissa(base, unit)

\* C9: no function other than the parser raises: toBase and the scale
\* functions return a result for every parsed quantity and base value.
C9_NeverRaises ==
    ~IsThrown(base) /\ ~IsThrown(out)

\* C10 as the specification states it: toBase of mantissa 0 is the floating
\* 0 for every unit and for the absent unit.
C10_ZeroFloating ==
    (op = "toBase" /\ q.lit.d = Zero) => base = Num(Zero, 0)

\* C10 as the program has it: toBase of mantissa 0 is 0, floating for the
\* units with a floating multiplier and for the absent unit, and an
\* arbitrary-precision 0 for E, Pi and Ei.
C10_ZeroBase ==
    (op = "toBase" /\ q.lit.d = Zero) =>
        base = IF q.unit \in BigUnits THEN BigI(Zero) ELSE Num(Zero, 0)

\* toBase was applied to 0Ei and returned the arbitrary-precision 0
C10_ZeroBigWitness ==
    op = "toBase" /\ q.lit.d = Zero /\ q.unit = "Ei" /\ base = BigI(Zero)

\* the exact sum of the values of the quantities of s, as num / den
RECURSIVE ExactSum(_)
ExactSumPlus(x, r) ==
    [num |-> BigAdd(BigMul(ExactNum(x), r.den), BigMul(r.num, ExactDen(x))),
     den |-> BigMul(ExactDen(x), r.den)]

ExactSum(s) ==
    IF s = <<>> THEN [num |-> Zero, den |-> One]
    ELSE ExactSumPlus(Head(s), ExactSum(Tail(s)))

\* the value v is the fraction r exactly
IsExactly(v, r) == BigMul(v.m, r.den) = BigMul(r.num, Pow2(v.k))

\* C6: accumulating base values with add from 0 always yields a result: the
\* accumulator is the exact sum of the values added so far, an
\* arbitrary-precision integer from the first such operand on and a floating
\* number before.
C6_ExactSum ==
    op = "add" =>
        /\ IsValue(acc)
        /\ IsBigInt(acc) <=> (\E i \in 1..Len(added) : Promoted(added[i]))
        /\ IsExactly(acc, ExactSum(added))

IsSign(x) == x.t = "number" /\ x.sign \in {-1, 0, 1}

\* C7: compare is a consistent ordering: compare(a, b) = -compare(b, a),
\* compare(a, b) <= 0 and compare(b, c) <= 0 give compare(a, c) <= 0, and
\* compare(a, b) = 0 and compare(b, c) = 0 give compare(a, c) = 0.
C7_Ordering ==
    op = "ac" =>
        /\ IsSign(cmp.ab) /\ IsSign(cmp.ba) /\ IsSign(cmp.bc) /\ IsSign(cmp.ac)
        /\ cmp.ab.sign = 0 - cmp.ba.sign
        /\ (cmp.ab.sign <= 0 /\ cmp.bc.sign <= 0) => cmp.ac.sign <= 0
        /\ (cmp.ab.sign = 0 /\ cmp.bc.sign = 0) => cmp.ac.sign = 0

(***************************************************************************)
(* The grammar of a resource string as the specification gives it:         *)
(* digits[.digits][e digits] and then at most one unit, over the whole     *)
(* input.  A split <<a, b, c>> ends the integer digits at a, the fraction  *)
(* at b and the exponent at c.                                             *)
(***************************************************************************)
GrammarUnits ==
    [u |-> <<"u">>, m |-> <<"m">>, k |-> <<"k">>, M |-> <<"M">>, G |-> <<"G">>,
     T |-> <<"T">>, P |-> <<"P">>, E |-> <<"E">>, B |-> <<"B">>,
     Ki |-> <<"K", "i">>, Mi |-> <<"M", "i">>, Gi |-> <<"G", "i">>,
     Ti |-> <<"T", "i">>, Pi |-> <<"P", "i">>, Ei |-> <<"E", "i">>]

\* s[from..to] is one digit or more
DigitsIn(s, from, to) ==
    from <= to /\ \A i \in from..to :
        s[i] \in {"0", "1", "2", "3", "4", "5", "6", "7", "8", "9"}

\* s[from..to] is empty, or the character c and then digits
OptionalGroup(s, from, to, c) ==
    to = from - 1 \/ (s[from] = c /\ DigitsIn(s, from + 1, to))

IsSplit(s, a, b, c) ==
    /\ DigitsIn(s, 1, a)
    /\ OptionalGroup(s, a + 1, b, ".")
    /\ OptionalGroup(s, b + 1, c, "e")
    /\ \/ c = Len(s)
       \/ \E u \in DOMAIN GrammarUnits : GrammarUnits[u] = SubSeq(s, c + 1, Len(s))

\* where a part can end: before a character that is no digit, or at the end
\* (a part ends in a digit, and what follows it starts with ".", "e" or a
\* letter of a unit)
Cuts(s) == {i \in 1..Len(s) : i = Len(s) \/ ~DigitsIn(s, i + 1, i + 1)}

Splits(s) ==
    {t \in Cuts(s) \X Cuts(s) \X Cuts(s) :
        t[1] <= t[2] /\ t[2] <= t[3] /\ IsSplit(s, t[1], t[2], t[3])}

InGrammar(s) == Splits(s) # {}

SplitOf(s) == CHOOSE t \in Splits(s) : TRUE

\* what a string of the grammar writes: the digits D of the integer and the
\* fraction, the count p of the fraction's digits, the power x of ten after
\* the e, and the unit.  Its number is D * 10^(x - p).
WrittenDigits(s, t) ==
    DigitsToBig(SubSeq(s, 1, t[1]) \o SubSeq(s, t[1] + 2, t[2]))

WrittenFraction(s, t) == IF t[2] > t[1] THEN t[2] - t[1] - 1 ELSE 0

WrittenPower(s, t) == DigitsToBig(SubSeq(s, t[2] + 2, t[3]))

WrittenUnit(s, t) ==
    IF t[3] = Len(s) THEN Undefined
    ELSE CHOOSE u \in DOMAIN GrammarUnits : GrammarUnits[u] = SubSeq(s, t[3] + 1, Len(s))

\* D * 10^(x - p) is too large for a double: it is at least 2^1024 - 2^970,
\* the midpoint from which the nearest double is Infinity.  With x above
\* p + 309 it is at least 10^310; otherwise the two sides are compared
\* after 10^p or 10^x, the smaller, is cancelled.
AtMidpoint(D, x, p) ==
    BigLe(BigMul(BigSub(Pow2(1024), Pow2(970)), Pow10(IF p > x THEN p - x ELSE 0)),
          BigMul(D, Pow10(IF x > p THEN x - p ELSE 0)))

TooLarge(D, x, p) ==
    /\ Len(D) > 0
    /\ \/ BigLt(BigOf(p + MaxDecExp), x)
       \/ AtMidpoint(D, BigToInt(x), p)

Overflows(s) ==
    TooLarge(WrittenDigits(s, SplitOf(s)), WrittenPower(s, SplitOf(s)),
             WrittenFraction(s, SplitOf(s)))

\* the quantity a string of the grammar writes
Written(s) ==
    Resource(FromDecimal(WrittenDigits(s, SplitOf(s)),
                         BigToInt(WrittenPower(s, SplitOf(s))) - WrittenFraction(s, SplitOf(s))),
             WrittenUnit(s, SplitOf(s)))

\* What the three string functions are specified to do, given whether the
\* first and the second string parse
ParsesWhen(okText, okText2) ==
    /\ op = "parse" =>
        IF okText THEN out # FormatError /\ out = Written(text)
        ELSE out = FormatError
    /\ op = "toBaseFromString" => (out = FormatError <=> ~okText)
    /\ op = "compareStrings" => (out = FormatError <=> (~okText \/ ~okText2))

ValidAndFinite(s) == InGrammar(s) /\ ~Overflows(s)

\* C5 as the specification states it: parse succeeds exactly when the whole
\* input matches the grammar, and then returns the mantissa and the unit;
\* every other string fails with the format error, and toBaseFromString and
\* compareStrings fail when any of their arguments does.
C5_ParseGrammar == ParsesWhen(InGrammar(text), InGrammar(text2))

\* C5 as the program has it: parse succeeds exactly when the whole input
\* matches the grammar and the number it writes is a finite double; a string
\* of the grammar that writes a larger number (9e999) fails with the format
\* error as well.
C5_ParseFinite == ParsesWhen(ValidAndFinite(text), ValidAndFinite(text2))

\* parse was given a string of the grammar that overflows, and failed
C5_OverflowWitness ==
    op = "parse" /\ InGrammar(text) /\ Overflows(text) /\ out = FormatError

\* the base value v is below 1
BelowOne(v) == (IsFinite(v) \/ IsBigInt(v)) /\ BigLt(v.m, Pow2(v.k))

\* the base value v is zero, as a number or as an arbitrary-precision integer
IsZero(v) == (IsFinite(v) \/ IsBigInt(v)) /\ Len(v.m) = 0

\* C11: with no unit supplied, scaleCpu of a base value below 1 never selects
\* k, M, G, T, P or E: zero (number or arbitrary-precision integer) gives
\* mantissa 0 with no unit at all, every other value below 1 gives one of u, m
\* and the no-unit member, and 0.5 gives 500 m; scaleMemory of zero gives
\* mantissa 0 with the no-unit member, the smallest memory unit.
C11_SmallBase ==
    /\ (op = "scaleCpu" /\ unit = Undefined /\ BelowOne(base)) =>
        IF IsZero(base) THEN out = Resource(Num(Zero, 0), Undefined)
        ELSE /\ out.t = "resource"
             /\ out.unit \in {"u", "m", ""}
             /\ out.unit \notin {"k", "M", "G", "T", "P", "E"}
             /\ base = Num(One, 1) => out = Resource(Num(<<500>>, 0), "m")
    /\ (op = "scaleMemory" /\ unit = Undefined /\ IsZero(base)) =>
        out = Resource(Num(Zero, 0), "")

\* scaleCpu selected a unit for the arbitrary-precision zero
C11_ZeroBigWitness ==
    op = "scaleCpu" /\ unit = Undefined /\ base = BigI(Zero) /\ out.unit = Undefined

\* other states the claim is about: 0.5 scaled to 500 m, a value below every
\* multiplier scaled to u, and scaleMemory of zero
C11_HalfReached ==
    op = "scaleCpu" /\ unit = Undefined /\ base = Num(One, 1) /\ out.unit = "m"
C11_TinyReached ==
    /\ op = "scaleCpu" /\ unit = Undefined /\ ~IsZero(base)
    /\ ~ReachesUnit(base, "u") /\ out.unit = "u"
C11_MemoryZeroReached ==
    op = "scaleMemory" /\ unit = Undefined /\ IsZero(base) /\ out.unit = ""

\* x and y are the same value, number or arbitrary-precision integer
SameValue(x, y) == IsValue(x) /\ IsValue(y) /\ ValCmp(x, y) = 0

\* C12: scaling to an auto-selected unit loses nothing.  For every base value
\* toBase returned and both families, scaleCpu and scaleMemory with no unit
\* supplied return a quantity whose base value is the one they were given:
\* toBase(scale(v)) = v.
C12_ScaleLossless ==
    (op \in {"scaleCpu", "scaleMemory"} /\ unit = Undefined) =>
        /\ out.t = "resource"
        /\ SameValue(parsedResourceToBaseUnit(out), base)

====
